---- MODULE Spec2Model ----
(***************************************************************************)
(* Model of two thin layers of the repository:                             *)
(*   - canvas/inspect.py: find_vars / _find_variable_name /                *)
(*     __climb_frame_stack, the stack-walking variable-name resolver;      *)
(*   - distributed/toolkits/classifier/logistic_classifier.py:             *)
(*     submit_training_job, which forwards hyperparameters to the          *)
(*     training backend.                                                   *)
(*                                                                         *)
(* Python str values are TLA+ strings; Python None is the string "None".   *)
(* Objects are named by their identity; ObjValue gives what == compares.   *)
(* A frame is a record [co_name, f_locals]; f_locals is the sequence of    *)
(* <<name, object>> bindings in the mapping's iteration order.  A frame    *)
(* reference is a position in the chain of frames: 0 is the frame of       *)
(* _find_variable_name itself, i > 0 is the i-th frame above it.           *)
(***************************************************************************)
EXTENDS Integers, Sequences, FiniteSets, TLC

VARIABLES stack, pc, entry, var, finalFrame, variable_name, variable,
          sink, returned, job_args, create_call, tracked

vars == <<stack, pc, entry, var, finalFrame, variable_name, variable,
          sink, returned, job_args, create_call, tracked>>

resolverVars == <<stack, entry, var, finalFrame, variable_name, variable,
                  sink, returned>>

jobVars == <<job_args, create_call, tracked>>

(***************************************************************************)
(* Bounds of the model.                                                    *)
(***************************************************************************)
MaxDepth == 3

MaxLocals == 2

MaxBindings == 2

MaxNestedBindings == 3

(***************************************************************************)
(* The values the program is run on.                                       *)
(***************************************************************************)
None == "None"

Unset == "unset"

Objects == {"obj1", "obj2"}

ObjValue == [o \in Objects |-> "[1,2,3]"]

LocalNames == {"self", "x", "y", "_hidden"}

NestedNames == {"self", "data"}

FuncNames == {"<module>", "_show_plot"}

NoFrame == -1

Raised == -2

(***************************************************************************)
(* Python str primitives.                                                  *)
(***************************************************************************)
startswith(s, prefix) ==
    /\ Len(s) >= Len(prefix)
    /\ SubSeq(s, 1, Len(prefix)) = prefix

contains(sub, s) ==
    \E i \in 1..(Len(s) - Len(sub) + 1) : SubSeq(s, i, i + Len(sub) - 1) = sub

(***************************************************************************)
(* graphlab.canvas._same_object: true iff both are the identical object.   *)
(***************************************************************************)
_same_object(a, b) == a = b

(***************************************************************************)
(* Frames.                                                                 *)
(***************************************************************************)
Keys(f_locals) == {f_locals[i][1] : i \in 1..Len(f_locals)}

OwnFrame(v) ==
    [co_name  |-> "_find_variable_name",
     f_locals |-> << <<"var", v>>, <<"frame", "<frame>">>,
                     <<"finalFrame", "<frame>">> >>]

FindVarsFrame(v) ==
    [co_name  |-> "find_vars",
     f_locals |-> << <<"var", v>>, <<"target", "<canvas target>">> >>]

FrameAt(i, v, chain) == IF i = 0 THEN OwnFrame(v) ELSE chain[i]

f_back(i, chain) == IF i < Len(chain) THEN i + 1 ELSE NoFrame

(***************************************************************************)
(* __climb_frame_stack: the index of the first frame from i upward that    *)
(* has no local 'self' and no 'show' in its function name; Raised when     *)
(* the recursion reaches None (AttributeError on None.f_locals).           *)
(***************************************************************************)
SkipFrame(f) == "self" \in Keys(f.f_locals) \/ contains("show", f.co_name)

(* Mutant: only a local 'self' makes a frame skipped. *)
RECURSIVE climb_SelfOnly(_, _, _)
climb_SelfOnly(i, v, chain) ==
    IF i = NoFrame THEN Raised
    ELSE IF "self" \in Keys(FrameAt(i, v, chain).f_locals)
         THEN climb_SelfOnly(f_back(i, chain), v, chain)
         ELSE i

RECURSIVE __climb_frame_stack(_, _, _)
__climb_frame_stack(i, v, chain) ==
    IF i = NoFrame THEN Raised
    ELSE IF SkipFrame(FrameAt(i, v, chain))
         THEN __climb_frame_stack(f_back(i, chain), v, chain)
         ELSE i

(***************************************************************************)
(* The scan of lines 25-32: the first binding, in iteration order, whose   *)
(* name does not start with '_' and whose object is the target.            *)
(***************************************************************************)
(* Mutant: the target is matched with == instead of _same_object. *)
RECURSIVE ScanLocals_ByValue(_, _)
ScanLocals_ByValue(f_locals, v) ==
    IF f_locals = <<>> THEN <<None, None>>
    ELSE LET k == Head(f_locals)[1]
             o == Head(f_locals)[2]
         IN  IF startswith(k, "_") THEN ScanLocals_ByValue(Tail(f_locals), v)
             ELSE IF o \in DOMAIN ObjValue /\ ObjValue[v] = ObjValue[o]
                  THEN <<k, o>>
             ELSE ScanLocals_ByValue(Tail(f_locals), v)

(* Mutant: underscore-prefixed names are not ignored. *)
RECURSIVE ScanLocals_NoUnderscore(_, _)
ScanLocals_NoUnderscore(f_locals, v) ==
    IF f_locals = <<>> THEN <<None, None>>
    ELSE LET k == Head(f_locals)[1]
             o == Head(f_locals)[2]
         IN  IF _same_object(v, o) THEN <<k, o>>
             ELSE ScanLocals_NoUnderscore(Tail(f_locals), v)

(* Mutant: the first non-underscore binding is returned, whatever it holds. *)
RECURSIVE ScanLocals_AnyObject(_, _)
ScanLocals_AnyObject(f_locals, v) ==
    IF f_locals = <<>> THEN <<None, None>>
    ELSE LET k == Head(f_locals)[1]
             o == Head(f_locals)[2]
         IN  IF startswith(k, "_") THEN ScanLocals_AnyObject(Tail(f_locals), v)
             ELSE <<k, o>>

(* Mutant: the scan does not stop at the first match; the last one wins. *)
RECURSIVE ScanLocals_LastWins(_, _)
ScanLocals_LastWins(f_locals, v) ==
    IF f_locals = <<>> THEN <<None, None>>
    ELSE LET k    == Head(f_locals)[1]
             o    == Head(f_locals)[2]
             rest == ScanLocals_LastWins(Tail(f_locals), v)
         IN  IF rest[1] # None THEN rest
             ELSE IF ~startswith(k, "_") /\ _same_object(v, o) THEN <<k, o>>
             ELSE <<None, None>>

RECURSIVE ScanLocals(_, _)
ScanLocals(f_locals, v) ==
    IF f_locals = <<>> THEN <<None, None>>
    ELSE LET k == Head(f_locals)[1]
             o == Head(f_locals)[2]
         IN  IF startswith(k, "_") THEN ScanLocals(Tail(f_locals), v)
             ELSE IF _same_object(v, o) THEN <<k, o>>
             ELSE ScanLocals(Tail(f_locals), v)

(***************************************************************************)
(* _find_variable_name(var) run with `chain` the frames above its own.     *)
(* raised is TRUE when line 23 dereferences None.                          *)
(***************************************************************************)
(* Mutant: the search starts one frame above instead of two. *)
StartFrame_OneLevel(chain) ==
    IF f_back(0, chain) = NoFrame THEN 0 ELSE f_back(0, chain)

StartFrame(chain) ==
    IF f_back(0, chain) = NoFrame THEN 0
    ELSE f_back(f_back(0, chain), chain)

FinalFrame(v, chain) ==
    LET frame   == StartFrame(chain)
        climbed == IF f_back(0, chain) = NoFrame THEN Raised
                   ELSE __climb_frame_stack(frame, v, chain)
    IN  IF climbed = Raised THEN frame ELSE climbed

_find_variable_name(v, chain) ==
    LET ff == FinalFrame(v, chain)
    IN  IF ff = NoFrame
        THEN [raised |-> TRUE, finalFrame |-> ff, pair |-> <<None, None>>]
        ELSE [raised |-> FALSE, finalFrame |-> ff,
              pair |-> ScanLocals(FrameAt(ff, v, chain).f_locals, v)]

(***************************************************************************)
(* The running program: it calls functions and binds locals in the         *)
(* innermost frame (stack[1]); the last element is the outermost frame.    *)
(***************************************************************************)
RECURSIVE TotalBindings(_)
TotalBindings(s) ==
    IF s = <<>> THEN 0 ELSE Len(Head(s).f_locals) + TotalBindings(Tail(s))

Rebind(f_locals, n, o) ==
    [i \in 1..Len(f_locals) |->
        IF f_locals[i][1] = n THEN <<n, o>> ELSE f_locals[i]]

PushFrame(fn) ==
    /\ pc = "running"
    /\ Len(stack) < MaxDepth
    /\ stack' = <<[co_name |-> fn, f_locals |-> <<>>]>> \o stack
    /\ UNCHANGED <<pc, entry, var, finalFrame, variable_name, variable,
                   sink, returned, jobVars>>

BindLocal(n, o) ==
    /\ pc = "running"
    /\ stack # <<>>
    /\ LET top == stack[1]
       IN  IF n \in Keys(top.f_locals)
           THEN stack' = [stack EXCEPT ![1].f_locals = Rebind(@, n, o)]
           ELSE /\ Len(top.f_locals) < MaxLocals
                /\ TotalBindings(stack) < MaxBindings
                /\ stack' = [stack EXCEPT ![1].f_locals = Append(@, <<n, o>>)]
    /\ UNCHANGED <<pc, entry, var, finalFrame, variable_name, variable,
                   sink, returned, jobVars>>

(***************************************************************************)
(* find_vars(var), lines 41-42: the call of _find_variable_name from the   *)
(* frame of find_vars, whose caller is stack[1].                           *)
(***************************************************************************)
FindVarsResolve(o) ==
    /\ pc = "running"
    /\ LET r == _find_variable_name(o, <<FindVarsFrame(o)>> \o stack)
       IN  /\ pc' = IF r.raised THEN "raised" ELSE "find_vars_43"
           /\ finalFrame' = r.finalFrame
           /\ variable_name' = r.pair[1]
           /\ variable' = r.pair[2]
    /\ entry' = "find_vars"
    /\ var' = o
    /\ UNCHANGED <<stack, sink, returned, jobVars>>

(* Mutant: the registration is not guarded by the None test. *)
FindVarsRegister_Always ==
    /\ pc = "find_vars_43"
    /\ sink' = Append(sink, [path |-> <<variable_name>>, obj |-> variable])
    /\ pc' = "find_vars_45"
    /\ UNCHANGED <<stack, entry, var, finalFrame, variable_name, variable,
                   returned, jobVars>>

(* lines 43-44 *)
FindVarsRegister ==
    /\ pc = "find_vars_43"
    /\ sink' = IF variable_name # None
               THEN Append(sink, [path |-> <<variable_name>>, obj |-> variable])
               ELSE sink
    /\ pc' = "find_vars_45"
    /\ UNCHANGED <<stack, entry, var, finalFrame, variable_name, variable,
                   returned, jobVars>>

(* line 45 *)
FindVarsReturn ==
    /\ pc = "find_vars_45"
    /\ returned' = variable_name
    /\ pc' = "done"
    /\ UNCHANGED <<stack, entry, var, finalFrame, variable_name, variable,
                   sink, jobVars>>

(***************************************************************************)
(* _find_variable_name(var) called directly from stack[1] (or from no      *)
(* Python frame at all when the stack is empty).                           *)
(***************************************************************************)
ResolveDirect(o) ==
    /\ pc = "running"
    /\ LET r == _find_variable_name(o, stack)
       IN  /\ pc' = IF r.raised THEN "raised" ELSE "done"
           /\ finalFrame' = r.finalFrame
           /\ variable_name' = r.pair[1]
           /\ variable' = r.pair[2]
    /\ entry' = "direct"
    /\ var' = o
    /\ UNCHANGED <<stack, sink, returned, jobVars>>

Init ==
    /\ stack = <<>>
    /\ pc = "running"
    /\ entry = "none"
    /\ var = Unset
    /\ finalFrame = Unset
    /\ variable_name = Unset
    /\ variable = Unset
    /\ sink = <<>>
    /\ returned = Unset
    /\ job_args = Unset
    /\ create_call = Unset
    /\ tracked = <<>>

Next ==
    \/ \E fn \in FuncNames : PushFrame(fn)
    \/ \E n \in LocalNames, o \in Objects : BindLocal(n, o)
    \/ \E o \in Objects : FindVarsResolve(o)
    \/ FindVarsRegister
    \/ FindVarsReturn
    \/ \E o \in Objects : ResolveDirect(o)

Spec == Init /\ [][Next]_vars

(***************************************************************************)
(* The program of nested method calls: find_vars is reached through        *)
(* methods, whose frames bind 'self', from a scope that binds 'data'.      *)
(***************************************************************************)
BindNested(n, o) ==
    /\ pc = "running"
    /\ stack # <<>>
    /\ LET top == stack[1]
       IN  IF n \in Keys(top.f_locals)
           THEN stack' = [stack EXCEPT ![1].f_locals = Rebind(@, n, o)]
           ELSE /\ Len(top.f_locals) < MaxLocals
                /\ TotalBindings(stack) < MaxNestedBindings
                /\ stack' = [stack EXCEPT ![1].f_locals = Append(@, <<n, o>>)]
    /\ UNCHANGED <<pc, entry, var, finalFrame, variable_name, variable,
                   sink, returned, jobVars>>

NextNested ==
    \/ \E fn \in FuncNames : PushFrame(fn)
    \/ \E n \in NestedNames, o \in Objects : BindNested(n, o)
    \/ \E o \in Objects : FindVarsResolve(o)
    \/ FindVarsRegister
    \/ FindVarsReturn

SpecNested == Init /\ [][NextNested]_vars

(***************************************************************************)
(* submit_training_job.  A call is the function from the names of the      *)
(* arguments that were passed to their values; a parameter that was not    *)
(* passed takes the default of the signature (lines 10-18).                *)
(***************************************************************************)
_DEFAULT_SOLVER_OPTIONS ==
    [convergence_threshold |-> "1e-2",
     step_size             |-> "1.0",
     lbfgs_memory_level    |-> 11,
     max_iterations        |-> 10]

SignatureDefaults ==
    [features              |-> None,
     l2_penalty            |-> "0.01",
     l1_penalty            |-> "0.0",
     solver                |-> "auto",
     feature_rescaling     |-> TRUE,
     convergence_threshold |-> _DEFAULT_SOLVER_OPTIONS.convergence_threshold,
     step_size             |-> _DEFAULT_SOLVER_OPTIONS.step_size,
     lbfgs_memory_level    |-> _DEFAULT_SOLVER_OPTIONS.lbfgs_memory_level,
     max_iterations        |-> _DEFAULT_SOLVER_OPTIONS.max_iterations,
     class_weights         |-> None,
     validation_set        |-> None]

Param(args, name) ==
    IF name \in DOMAIN args THEN args[name] ELSE SignatureDefaults[name]

LowerChar(c) ==
    CASE c = "A" -> "a" [] c = "B" -> "b" [] c = "C" -> "c" [] c = "D" -> "d"
      [] c = "E" -> "e" [] c = "F" -> "f" [] c = "G" -> "g" [] c = "H" -> "h"
      [] c = "I" -> "i" [] c = "J" -> "j" [] c = "K" -> "k" [] c = "L" -> "l"
      [] c = "M" -> "m" [] c = "N" -> "n" [] c = "O" -> "o" [] c = "P" -> "p"
      [] c = "Q" -> "q" [] c = "R" -> "r" [] c = "S" -> "s" [] c = "T" -> "t"
      [] c = "U" -> "u" [] c = "V" -> "v" [] c = "W" -> "w" [] c = "X" -> "x"
      [] c = "Y" -> "y" [] c = "Z" -> "z" [] OTHER -> c

RECURSIVE lower(_)
lower(s) == IF s = "" THEN "" ELSE LowerChar(Head(s)) \o lower(Tail(s))

submit_training_job ==
    /\ pc = "job_start"
    /\ tracked' = Append(tracked,
          "distributed.toolkit.classifier.logistic_classifier.submit_training_job")
    /\ create_call' =
          [dataset               |-> job_args["dataset"],
           target                |-> job_args["target"],
           model_name            |-> "classifier_logistic_regression",
           env                   |-> job_args["env"],
           features              |-> Param(job_args, "features"),
           validation_set        |-> Param(job_args, "validation_set"),
           l2_penalty            |-> Param(job_args, "l2_penalty"),
           l1_penalty            |-> Param(job_args, "l1_penalty"),
           feature_rescaling     |-> Param(job_args, "feature_rescaling"),
           convergence_threshold |-> Param(job_args, "convergence_threshold"),
           step_size             |-> Param(job_args, "step_size"),
           solver                |-> lower(Param(job_args, "solver")),
           lbfgs_memory_level    |-> Param(job_args, "lbfgs_memory_level"),
           max_iterations        |-> Param(job_args, "max_iterations"),
           class_weights         |-> Param(job_args, "class_weights")]
    /\ pc' = "job_done"
    /\ UNCHANGED <<resolverVars, job_args>>

RequiredArgs == {"env", "dataset", "target"}

OptionalArgs == DOMAIN SignatureDefaults

ArgChoices ==
    [env                   |-> {"hdp_env"},
     dataset               |-> {"sf"},
     target                |-> {"is_expensive"},
     features              |-> {"['f1', 'f2']"},
     l2_penalty            |-> {"0.5"},
     l1_penalty            |-> {"0.1"},
     solver                |-> {"auto", "Newton", "LBFGS"},
     feature_rescaling     |-> {FALSE},
     convergence_threshold |-> {"1e-4"},
     step_size             |-> {"0.5"},
     lbfgs_memory_level    |-> {3},
     max_iterations        |-> {20},
     class_weights         |-> {"auto"},
     validation_set        |-> {None, "auto", "valid_sf"}]

JobCalls ==
    UNION {
      UNION {
        { [k \in RequiredArgs \cup passed |->
              CASE k = "solver" -> s
                [] k = "validation_set" -> v
                [] OTHER -> CHOOSE c \in ArgChoices[k] : TRUE]
          : s \in ArgChoices["solver"] }
        : v \in ArgChoices["validation_set"] }
      : passed \in SUBSET OptionalArgs }

InitJob ==
    /\ job_args \in JobCalls
    /\ pc = "job_start"
    /\ create_call = Unset
    /\ tracked = <<>>
    /\ stack = <<>>
    /\ entry = "none"
    /\ var = Unset
    /\ finalFrame = Unset
    /\ variable_name = Unset
    /\ variable = Unset
    /\ sink = <<>>
    /\ returned = Unset

NextJob == submit_training_job

SpecJob == InitJob /\ [][NextJob]_vars
(***************************************************************************)
(* Vocabulary of the properties.  Chain is the chain of frames above the   *)
(* frame of _find_variable_name in the call that was made; Called holds    *)
(* once that call has returned a pair.                                     *)
(***************************************************************************)
Chain == IF entry = "find_vars" THEN <<FindVarsFrame(var)>> \o stack ELSE stack

Called == pc \in {"find_vars_43", "find_vars_45", "done"}

FindVarsDone == pc = "done" /\ entry = "find_vars"

ChosenLocals == FrameAt(finalFrame, var, Chain).f_locals

IsUnderscore(n) == Len(n) > 0 /\ Head(n) = "_"

Candidate(f_locals, i) ==
    f_locals[i][2] = var /\ ~IsUnderscore(f_locals[i][1])

FirstCandidate(f_locals, i) ==
    /\ Candidate(f_locals, i)
    /\ \A h \in 1..(i - 1) : ~Candidate(f_locals, h)

Qualifying ==
    {j \in 2..Len(Chain) :
        /\ ~SkipFrame(Chain[j])
        /\ \A i \in 2..(j - 1) : SkipFrame(Chain[i])}

Exhausted ==
    /\ Len(Chain) >= 2
    /\ \A i \in 2..Len(Chain) : SkipFrame(Chain[i])

(***************************************************************************)
(* C1 as stated: every non-underscore name n that the qualifying frame     *)
(* binds to o is the name returned by _find_variable_name(o) and by        *)
(* find_vars(o).                                                           *)
(***************************************************************************)
C1_EveryBoundNameReturned ==
    FindVarsDone =>
        \A j \in Qualifying : \A i \in 1..Len(Chain[j].f_locals) :
            Candidate(Chain[j].f_locals, i) =>
                /\ variable_name = Chain[j].f_locals[i][1]
                /\ returned = Chain[j].f_locals[i][1]

(***************************************************************************)
(* C1 amended: when the qualifying frame binds o to non-underscore names,  *)
(* _find_variable_name(o) and find_vars(o) return the first such name in   *)
(* the iteration order of the frame's locals.                              *)
(***************************************************************************)
C1_FirstBoundNameReturned ==
    FindVarsDone =>
        \A j \in Qualifying : \A i \in 1..Len(Chain[j].f_locals) :
            FirstCandidate(Chain[j].f_locals, i) =>
                /\ variable_name = Chain[j].f_locals[i][1]
                /\ variable = var
                /\ returned = Chain[j].f_locals[i][1]

C1_Witness ==
    /\ FindVarsDone
    /\ \E j \in Qualifying :
          /\ j >= 3
          /\ Len(Chain[j].f_locals) = 2
          /\ Candidate(Chain[j].f_locals, 1)
          /\ Candidate(Chain[j].f_locals, 2)
          /\ returned = Chain[j].f_locals[1][1]

(***************************************************************************)
(* C2: _find_variable_name never raises; when the frame two levels above   *)
(* it does not exist, or the climb runs past the top of the stack, it      *)
(* returns (None, None).                                                   *)
(***************************************************************************)
C2_NeverRaises ==
    /\ pc # "raised"
    /\ (Called /\ (Len(Chain) < 2 \/ Exhausted)) =>
          (variable_name = None /\ variable = None)

(***************************************************************************)
(* C3: in a call of find_vars the frames of _find_variable_name and of     *)
(* find_vars are never scanned, every frame between the caller of          *)
(* find_vars and the scanned frame has a local 'self' or a function name   *)
(* containing 'show', and when a frame with neither exists the scanned     *)
(* frame is the first such frame, so that the first name it binds to the   *)
(* target is the result: two innermost frames with 'self' below a frame    *)
(* binding the target to 'data' give 'data'.  (A chain on which every      *)
(* frame is skipped has no such frame; it is the subject of C9.)           *)
(***************************************************************************)
C3_FrameSkipping ==
    (entry = "find_vars" /\ Called) =>
        /\ finalFrame >= 2
        /\ \A i \in 2..(finalFrame - 1) : SkipFrame(Chain[i])
        /\ Qualifying # {} =>
              /\ finalFrame \in Qualifying
              /\ \A i \in 1..Len(ChosenLocals) :
                    FirstCandidate(ChosenLocals, i) =>
                        variable_name = ChosenLocals[i][1]

C3_Witness ==
    /\ FindVarsDone
    /\ Len(stack) = 3
    /\ "self" \in Keys(stack[1].f_locals)
    /\ ~contains("show", stack[1].co_name)
    /\ "self" \in Keys(stack[2].f_locals)
    /\ ~contains("show", stack[2].co_name)
    /\ ~SkipFrame(stack[3])
    /\ stack[3].f_locals = << <<"data", var>> >>
    /\ variable_name = "data"
    /\ returned = "data"
    /\ sink = <<[path |-> <<"data">>, obj |-> var]>>

(***************************************************************************)
(* C4: matching is by identity: a name that the scanned frame binds to an  *)
(* object other than the target is never returned, even when that object   *)
(* compares equal to the target, and the object returned with a name is    *)
(* the target itself.                                                      *)
(***************************************************************************)
C4_IdentityNotEquality ==
    Called =>
        /\ \A i \in 1..Len(ChosenLocals) :
              ChosenLocals[i][2] # var => variable_name # ChosenLocals[i][1]
        /\ variable_name # None => variable = var

C4_Witness ==
    /\ Called
    /\ Len(ChosenLocals) = 2
    /\ ChosenLocals[1][1] = "x"
    /\ ChosenLocals[1][2] # var
    /\ ObjValue[ChosenLocals[1][2]] = ObjValue[var]
    /\ ChosenLocals[2] = <<"y", var>>
    /\ variable_name = "y"

(***************************************************************************)
(* C5: the returned name never starts with an underscore; when the         *)
(* scanned frame binds the target only to underscore-prefixed names the    *)
(* result is (None, None), find_vars returns None and the sink is not      *)
(* invoked.                                                                *)
(***************************************************************************)
C5_UnderscoreExcluded ==
    Called =>
        /\ variable_name # None => ~IsUnderscore(variable_name)
        /\ ( /\ \E i \in 1..Len(ChosenLocals) : ChosenLocals[i][2] = var
             /\ \A i \in 1..Len(ChosenLocals) :
                   ChosenLocals[i][2] = var => IsUnderscore(ChosenLocals[i][1]) )
           => /\ variable_name = None
              /\ variable = None
              /\ sink = <<>>
              /\ FindVarsDone => returned = None

C5_Witness ==
    /\ FindVarsDone
    /\ \E i \in 1..Len(ChosenLocals) : ChosenLocals[i] = <<"_hidden", var>>
    /\ \A i \in 1..Len(ChosenLocals) :
          ChosenLocals[i][2] = var => ChosenLocals[i][1] = "_hidden"
    /\ returned = None
    /\ sink = <<>>

(***************************************************************************)
(* C6: when the scanned frame binds no name to the target, the result is   *)
(* (None, None), find_vars returns None and add_variable is never invoked, *)
(* even if another frame of the chain binds the target.                    *)
(***************************************************************************)
C6_UnboundGivesNone ==
    (Called /\ \A i \in 1..Len(ChosenLocals) : ChosenLocals[i][2] # var) =>
        /\ variable_name = None
        /\ variable = None
        /\ sink = <<>>
        /\ FindVarsDone => returned = None

C6_Witness ==
    /\ FindVarsDone
    /\ ChosenLocals # <<>>
    /\ \A i \in 1..Len(ChosenLocals) : ChosenLocals[i][2] # var
    /\ \E j \in 2..Len(Chain) : \E i \in 1..Len(Chain[j].f_locals) :
          j # finalFrame /\ Candidate(Chain[j].f_locals, i)
    /\ returned = None
    /\ sink = <<>>

(***************************************************************************)
(* C7: in a call of find_vars, add_variable is invoked exactly once if a   *)
(* name was resolved and not at all otherwise, with the one-element tuple  *)
(* (name,) and the target object, before find_vars returns; find_vars      *)
(* returns the name alone, None when nothing was resolved.                 *)
(***************************************************************************)
C7_Registration ==
    /\ pc \in {"running", "find_vars_43", "raised"} => sink = <<>>
    /\ pc # "done" => returned = Unset
    /\ entry = "direct" => (sink = <<>> /\ returned = Unset)
    /\ (entry = "find_vars" /\ pc \in {"find_vars_45", "done"}) =>
          sink = IF variable_name # None
                 THEN <<[path |-> <<variable_name>>, obj |-> var]>>
                 ELSE <<>>
    /\ FindVarsDone =>
          /\ returned = variable_name
          /\ returned = None <=> sink = <<>>

C7_Witness ==
    /\ FindVarsDone
    /\ returned = "x"
    /\ sink = <<[path |-> <<"x">>, obj |-> var]>>

(***************************************************************************)
(* C8: a call of submit_training_job without validation_set forwards       *)
(* validation_set = 'auto' to the backend's create call, every other       *)
(* hyperparameter unchanged except solver, forwarded lower-cased, under    *)
(* the model name 'classifier_logistic_regression'.                        *)
(***************************************************************************)
C8_ValidationSetDefaultsToAuto ==
    (pc = "job_done" /\ "validation_set" \notin DOMAIN job_args) =>
        /\ create_call.validation_set = "auto"
        /\ create_call.model_name = "classifier_logistic_regression"
        /\ create_call.solver = lower(Param(job_args, "solver"))
        /\ \A k \in (DOMAIN job_args) \ {"solver"} : create_call[k] = job_args[k]

(***************************************************************************)
(* C9: when every frame from the starting frame to the top of the stack    *)
(* is skipped, so that the climb finds no parent frame, the scanned frame   *)
(* is the last frame reached, the topmost frame of the chain, and not the  *)
(* frame the climb started from.                                           *)
(***************************************************************************)
C9_ExhaustedUsesLastFrame ==
    (Called /\ Exhausted) => finalFrame = Len(Chain)

(***************************************************************************)
(* C10: the pair returned by _find_variable_name is (None, None) or a      *)
(* pair (k, v) with both present, v the target object and k the first      *)
(* name, in iteration order, among the non-underscore names that the       *)
(* scanned frame binds to the target.                                      *)
(***************************************************************************)
C10_ResultWellFormed ==
    Called =>
        \/ variable_name = None /\ variable = None
        \/ /\ variable_name # None
           /\ variable # None
           /\ variable = var
           /\ \E i \in 1..Len(ChosenLocals) :
                 /\ ChosenLocals[i] = <<variable_name, variable>>
                 /\ FirstCandidate(ChosenLocals, i)

C10_Witness ==
    /\ Called
    /\ Len(ChosenLocals) = 2
    /\ Candidate(ChosenLocals, 1)
    /\ Candidate(ChosenLocals, 2)
    /\ variable_name = ChosenLocals[1][1]
    /\ variable = var
    /\ finalFrame >= 3
====
